---- MODULE Spec2Model ----
(***************************************************************************)
(* Model of advanced-vector/vector.h: RawMemory<T> (an untyped block of    *)
(* slots) and Vector<T> (a block plus the count of live elements).         *)
(*                                                                         *)
(* A block is a sequence of slots; C++ index i is element i + 1 of the     *)
(* sequence.  A slot holds Raw (no object), Moved (a live object in its    *)
(* moved-from state) or a value >= 0 (a live object with that value).      *)
(* Every public operation is one action.  Its body is computed by a        *)
(* sequential "machine" record m that is threaded through the statements   *)
(* of the C++ function:                                                    *)
(*   m.cur   data_ (the block owned by the vector)                         *)
(*   m.nw    new_data (the local block of a growing operation)             *)
(*   m.size  size_                                                         *)
(*   m.log   the element-level events of the call, in program order        *)
(*   m.n     number of fallible element operations executed so far         *)
(*   m.fail  the ordinal of the fallible element operation that throws     *)
(*           (0: none throws)                                              *)
(*   m.threw an exception is propagating                                   *)
(*   m.g     the value an indeterminate read yields (undefined behaviour)  *)
(*   m.leaked objects whose storage was released without a destructor call *)
(*   m.tmp   the local T temp of Emplace (a block of one slot)             *)
(*   m.rhs, m.rsize  the other array of a two-array operation              *)
(*   m.hcur, m.hnw, m.hrhs  buffer_ of data_, new_data and the other       *)
(*           array's data_: which storage each block designates            *)
(* The state keeps the two arrays; the outcome of a call (its events,       *)
(* whether it threw, what it returned) is a value of its body, and the     *)
(* properties of calls quantify over the outcomes of a call in a state.    *)
(***************************************************************************)
EXTENDS Integers, Sequences, FiniteSets, TLC

VARIABLES
    ty,     \* the element type T
    data,   \* data_ of the array under test
    size,   \* size_ of the array under test
    odata,  \* data_ of the other array
    osize,  \* size_ of the other array
    threw,  \* the last call left by an exception
    ub,     \* the last call executed undefined behaviour
    hist    \* history: appends since empty construction, the last Reserve

vars == <<ty, data, size, odata, osize, threw, ub, hist>>

(* ------------------------------ bounds --------------------------------- *)

\* Largest capacity a block of the array under test may have.
MaxCap == 4

\* Largest capacity either array may have in the two-array specification.
MaxCapTwo == 2

\* Values the caller supplies for new elements; with DefaultVal an array
\* holds elements of two distinguishable values.
Values == {1}

(* ------------------------------ slots ---------------------------------- *)

\* operator new: storage without an object in it.
Raw == -1

\* A live object after it was the source of a move.
Moved == -2

\* The value of a value-initialised element (T()).
DefaultVal == 0

\* What a read of storage that holds no object may yield.
Garbage == Values \cup {DefaultVal}

\* The element types: whether T is copy constructible and whether its move
\* constructor is noexcept.  (A move-only type with a noexcept move behaves
\* in every operation below as the first type does.)
Types ==
    {[copyable |-> TRUE, nothrowMove |-> TRUE],
     [copyable |-> TRUE, nothrowMove |-> FALSE],
     [copyable |-> FALSE, nothrowMove |-> FALSE]}

\* buffer_ of a block of capacity 0: Allocate(0) returns nullptr.
Null == "null"

\* buffer_ of the block s, h being the address of its storage if it has any.
Handle(h, s) == IF Len(s) = 0 THEN Null ELSE h

\* RawMemory(capacity): capacity slots of raw storage.
RawBlock(n) == [i \in 1..n |-> Raw]

\* Number of live objects in a block.
LiveCount(s) == Cardinality({i \in 1..Len(s) : s[i] # Raw})

\* The values of slots [0, n) of a block.
Prefix(s, n) == [i \in 1..n |-> s[i]]

(* ----------------------- element-level machine ------------------------- *)

Blk(m, b) ==
    CASE b = "data" -> m.cur
      [] b = "new_data" -> m.nw
      [] b = "temp" -> m.tmp
      [] OTHER -> m.rhs

SetBlk(m, b, s) ==
    CASE b = "data" -> [m EXCEPT !.cur = s]
      [] b = "new_data" -> [m EXCEPT !.nw = s]
      [] b = "temp" -> [m EXCEPT !.tmp = s]
      [] OTHER -> [m EXCEPT !.rhs = s]

\* An event: kind k on slot i of block variable b; src is the slot read
\* (-1: none); ok: the operation completed; bad: it touched storage that
\* holds no object where one is required, or lies outside the block.
Ev(k, b, i, src, ok, bad) == [k |-> k, b |-> b, i |-> i, src |-> src, ok |-> ok, bad |-> bad]

\* Log an event and keep the summary of the log: ub (some event was bad),
\* junk (some read was of storage without an object), failed (the kind of
\* the element operation that threw, "" if none did).
Emit(m, e) ==
    [m EXCEPT !.log = Append(@, e),
              !.ub = @ \/ e.bad,
              !.junk = @ \/ (e.bad /\ e.src # -1),
              !.failed = IF e.ok THEN @ ELSE e.k]

\* Which element operations of T may throw.
CanFail(k) ==
    CASE k = "ctor" -> TRUE
      [] k = "dflt" -> TRUE
      [] k = "copy" -> TRUE
      [] k = "casgn" -> TRUE
      [] k = "move" -> ~ty.nothrowMove
      [] k = "masgn" -> ~ty.nothrowMove
      [] OTHER -> FALSE

IsMoveKind(k) == k \in {"move", "masgn"}

IsAssign(k) == k \in {"masgn", "casgn"}

\* The fallible step counter: does the next operation of kind k throw?
Throws(m, k) == CanFail(k) /\ m.n + 1 = m.fail

Count(m, k) == IF CanFail(k) THEN [m EXCEPT !.n = @ + 1] ELSE m

\* Is slot i of s inside the block and holding an object?
HasObj(s, i) == i >= 0 /\ i < Len(s) /\ s[i + 1] # Raw

RECURSIVE DestroyN(_, _, _, _)
RECURSIVE UninitN(_, _, _, _, _, _, _, _)
RECURSIVE UninitStep(_, _, _, _, _, _, _, _)
RECURSIVE ValueConstructN(_, _, _, _, _)
RECURSIVE ValueConstructStep(_, _, _, _, _)
RECURSIVE AssignFwd(_, _, _, _, _)
RECURSIVE AssignFwdStep(_, _, _, _, _)
RECURSIVE AssignBwd(_, _, _, _, _)
RECURSIVE AssignBwdStep(_, _, _, _, _)
RECURSIVE AssignFromRhs(_, _, _)
RECURSIVE AssignFromRhsStep(_, _, _)

\* Placement new into a slot that still holds an object ends that object's
\* lifetime without a destructor call.
Over(m, b, i) ==
    IF HasObj(Blk(m, b), i) THEN [m EXCEPT !.leaked = @ + 1] ELSE m

\* The caller's argument is a value, or RefBase + i: a reference (an lvalue,
\* not moved) to element i of the array the member function is called on.
RefBase == 100

Ref(i) == RefBase + i

IsRef(arg) == arg >= RefBase

\* The storage the array's block had at the entry of the call: the
\* reference keeps designating it after data_.Swap(new_data).
Referent(m) == IF m.hnw = "a" THEN m.nw ELSE m.cur

\* Is the object a reference argument designates gone when it is read?
Dangles(m, arg) == IsRef(arg) /\ ~HasObj(Referent(m), arg - RefBase)

\* The value the constructor of the new element reads from its argument,
\* at the time it runs.
Resolve(m, arg) ==
    IF ~IsRef(arg) THEN arg
    ELSE IF Dangles(m, arg) THEN m.g
    ELSE Referent(m)[arg - RefBase + 1]

\* new (buf) T(args...): construct an object with value val in slot i of b.
\* k is "ctor" (from the caller's arguments) or "dflt" (T()).
PlaceNew(m, k, b, i, val) ==
    IF Throws(m, k)
    THEN Emit([Count(m, k) EXCEPT !.threw = TRUE], Ev(k, b, i, -1, FALSE, FALSE))
    ELSE Emit(SetBlk(Over(Count(m, k), b, i), b,
                     [Blk(m, b) EXCEPT ![i + 1] = Resolve(m, val)]),
              Ev(k, b, i, IF IsRef(val) THEN val - RefBase ELSE -1, TRUE, Dangles(m, val)))

\* A move leaves its source in the moved-from state.
MarkMoved(m, k, db, di, sb, si, srcOk) ==
    IF IsMoveKind(k) /\ srcOk /\ ~(db = sb /\ di = si)
    THEN SetBlk(m, sb, [Blk(m, sb) EXCEPT ![si + 1] = Moved])
    ELSE m

\* Reading a source without an object, or assigning to a slot without one.
XferBad(m, k, db, di, srcOk) == ~srcOk \/ (IsAssign(k) /\ ~HasObj(Blk(m, db), di))

\* Xfer, given whether the source holds an object.
XferWith(m, k, db, di, sb, si, srcOk) ==
    IF Throws(m, k)
    THEN Emit([Count(m, k) EXCEPT !.threw = TRUE],
              Ev(k, db, di, si, FALSE, XferBad(m, k, db, di, srcOk)))
    ELSE Emit(MarkMoved(SetBlk(IF IsAssign(k) THEN Count(m, k) ELSE Over(Count(m, k), db, di),
                               db,
                               [Blk(m, db) EXCEPT
                                   ![di + 1] = IF srcOk THEN Blk(m, sb)[si + 1] ELSE m.g]),
                        k, db, di, sb, si, srcOk),
              Ev(k, db, di, si, TRUE, XferBad(m, k, db, di, srcOk)))

\* Construct (k = "move"/"copy") or assign (k = "masgn"/"casgn") slot di of
\* block db from slot si of block sb.  A source that holds no object yields
\* the indeterminate value m.g.
Xfer(m, k, db, di, sb, si) == XferWith(m, k, db, di, sb, si, HasObj(Blk(m, sb), si))

\* buf->~T() on slot i of b.  On storage without an object the call is
\* undefined behaviour; the slot stays raw and the event is marked bad.
Destroy(m, b, i) ==
    IF HasObj(Blk(m, b), i)
    THEN Emit(SetBlk(m, b, [Blk(m, b) EXCEPT ![i + 1] = Raw]),
              Ev("dtor", b, i, -1, TRUE, FALSE))
    ELSE Emit(m, Ev("dtor", b, i, -1, TRUE, TRUE))

\* std::destroy_n(b + off, cnt)
DestroyN(m, b, off, cnt) ==
    IF cnt <= 0 THEN m ELSE DestroyN(Destroy(m, b, off), b, off + 1, cnt - 1)

\* std::uninitialized_copy_n / std::uninitialized_move_n (k = "copy"/"move")
\* of cnt elements from sb + so to db + do, j done so far: when a
\* construction throws, the j objects already built are destroyed.
UninitN(m, k, sb, so, db, do, j, cnt) ==
    IF j >= cnt THEN m
    ELSE UninitStep(Xfer(m, k, db, do + j, sb, so + j), k, sb, so, db, do, j, cnt)

\* Mutation of UninitStep: a throwing construction leaves the objects
\* already built alive.
UninitStepNoRollback(m, k, sb, so, db, do, j, cnt) ==
    IF m.threw THEN m
    ELSE UninitN(m, k, sb, so, db, do, j + 1, cnt)

UninitStep(m, k, sb, so, db, do, j, cnt) ==
    IF m.threw THEN DestroyN(m, db, do, j)
    ELSE UninitN(m, k, sb, so, db, do, j + 1, cnt)

\* std::uninitialized_value_construct_n(b + off, cnt), j done so far.
ValueConstructN(m, b, off, j, cnt) ==
    IF j >= cnt THEN m
    ELSE ValueConstructStep(PlaceNew(m, "dflt", b, off + j, DefaultVal), b, off, j, cnt)

ValueConstructStep(m, b, off, j, cnt) ==
    IF m.threw THEN DestroyN(m, b, off, j)
    ELSE ValueConstructN(m, b, off, j + 1, cnt)

\* std::move / std::copy (k = "masgn"/"casgn") of [first, last) of data_ to
\* d_first, front to back.  An empty range assigns nothing; a reversed one
\* (first > last) is undefined behaviour, and the library's loop over
\* last - first <= 0 elements assigns nothing.
AssignFwd(m, k, first, last, dfirst) ==
    IF first > last THEN Emit(m, Ev("range", "data", first, -1, TRUE, TRUE))
    ELSE IF first = last THEN m
    ELSE AssignFwdStep(Xfer(m, k, "data", dfirst, "data", first), k, first, last, dfirst)

AssignFwdStep(m, k, first, last, dfirst) ==
    IF m.threw THEN m ELSE AssignFwd(m, k, first + 1, last, dfirst + 1)

\* std::move_backward of [first, last) of data_ so that it ends at d_last,
\* back to front.  Empty and reversed ranges as for AssignFwd.
AssignBwd(m, k, first, last, dlast) ==
    IF first > last THEN Emit(m, Ev("range", "data", first, -1, TRUE, TRUE))
    ELSE IF first = last THEN m
    ELSE AssignBwdStep(Xfer(m, k, "data", dlast - 1, "data", last - 1), k, first, last, dlast)

AssignBwdStep(m, k, first, last, dlast) ==
    IF m.threw THEN m ELSE AssignBwd(m, k, first, last - 1, dlast - 1)

\* RawMemory<T> new_data(n)
Alloc(m, n) ==
    Emit([m EXCEPT !.nw = RawBlock(n), !.hnw = Handle("n", RawBlock(n))],
         Ev("alloc", "new_data", n, -1, TRUE, FALSE))

\* data_.Swap(new_data)
SwapBlocks(m) ==
    Emit([m EXCEPT !.cur = m.nw, !.nw = m.cur, !.hcur = m.hnw, !.hnw = m.hcur],
         Ev("swap", "data", -1, -1, TRUE, FALSE))

\* ~RawMemory() of new_data: the storage is released with no destructor
\* call; objects still alive in it are lost.
Free(m) ==
    Emit([m EXCEPT !.leaked = @ + LiveCount(m.nw), !.nw = <<>>, !.hnw = Null],
         Ev("free", "new_data", LiveCount(m.nw), -1, TRUE, FALSE))

\* The machine at the entry of a member function of an array (d, sz) whose
\* argument, if it takes another array, is (r, rsz).
Machine(d, sz, r, rsz, fail, g) ==
    [cur |-> d, nw |-> <<>>, tmp |-> <<Raw>>, rhs |-> r, rsize |-> rsz, size |-> sz,
     log |-> <<>>, n |-> 0, fail |-> fail, threw |-> FALSE, g |-> g, leaked |-> 0,
     ret |-> -1, ub |-> FALSE, junk |-> FALSE, failed |-> "",
     hcur |-> Handle("a", d), hnw |-> Null, hrhs |-> Handle("b", r)]

\* The machine at the entry of a member function of the array under test.
Enter(fail, g) == Machine(data, size, odata, osize, fail, g)

\* Mutation of RelocKind: the test of is_copy_constructible_v is left out,
\* so that a move-only type with a throwing move is relocated by copy.
RelocKindNoCopyTest == IF ty.nothrowMove THEN "move" ELSE "copy"

\* The relocation policy: is_nothrow_move_constructible_v<T> ||
\* !is_copy_constructible_v<T> selects uninitialized_move_n.
RelocKind == IF ty.nothrowMove \/ ~ty.copyable THEN "move" ELSE "copy"

\* Mutation of GrowCap: growth by one slot.
GrowCapByOne(sz) == sz + 1

\* The capacity a growing append or insert asks for.
GrowCap(sz) == IF sz = 0 THEN 1 ELSE sz * 2

(* --------------------------- Vector<T> bodies -------------------------- *)
(* A body is written as its statements in order; each operator takes the   *)
(* machine left by the statement before it.                                *)

\* Reserve, after the relocation: new_data.Swap(data_); destroy_n; the
\* block is released when new_data goes out of scope (also by a throw).
ReserveSwap(m) ==
    IF m.threw THEN Free(m)
    ELSE Free(DestroyN(SwapBlocks(m), "new_data", 0, m.size))

\* Vector::Reserve(new_capacity)
ReserveBody(m, newcap) ==
    IF newcap <= Len(m.cur) THEN m
    ELSE ReserveSwap(UninitN(Alloc(m, newcap), RelocKind, "data", 0, "new_data", 0, 0, m.size))

\* size_ = n, reached only when nothing threw.
SetSize(m, n) == IF m.threw THEN m ELSE [m EXCEPT !.size = n]

\* Resize, growing, after the Reserve: the cnt new elements are value-
\* constructed from data_ + (Capacity() - count_new_elem).
ResizeFill(m, cnt, newsize) ==
    IF m.threw THEN m
    ELSE SetSize(ValueConstructN(m, "data", Len(m.cur) - cnt, 0, cnt), newsize)

\* Vector::Resize(new_size)
ResizeBody(m, newsize) ==
    IF newsize <= m.size
    THEN [DestroyN(m, "data", newsize, m.size - newsize) EXCEPT !.size = newsize]
    ELSE ResizeFill(IF Len(m.cur) < newsize THEN ReserveBody(m, newsize) ELSE m,
                    newsize - m.size, newsize)

\* Mutation of PushBackSwap: the blocks are exchanged whether or not the
\* relocation threw.
PushBackSwapAlways(m) ==
    [Free(DestroyN(SwapBlocks(m), "new_data", 0, m.size)) EXCEPT !.size = @ + 1]

\* PushBack, growth branch, after the relocation.
PushBackSwap(m) ==
    IF m.threw THEN Free(m)
    ELSE [Free(DestroyN(SwapBlocks(m), "new_data", 0, m.size)) EXCEPT !.size = @ + 1]

\* PushBack, growth branch, after the new element was built in new_data.
PushBackRelocate(m) ==
    IF m.threw THEN Free(Destroy(m, "new_data", m.size))
    ELSE PushBackSwap(UninitN(m, RelocKind, "data", 0, "new_data", 0, 0, m.size))

\* PushBack, size_ < Capacity(), after the construction in slot size_.
PushBackInPlace(m) ==
    IF m.threw THEN Destroy(m, "data", m.size) ELSE [m EXCEPT !.size = @ + 1]

\* Mutation of PushBackBody: the growth branch is taken one element early.
PushBackBodyEarly(m, val) ==
    IF m.size + 1 >= Len(m.cur)
    THEN PushBackRelocate(PlaceNew(Alloc(m, GrowCap(m.size)), "ctor", "new_data", m.size, val))
    ELSE PushBackInPlace(PlaceNew(m, "ctor", "data", m.size, val))

\* Mutation of PushBackBody: in the growth branch the elements are relocated
\* before the new element is built.
PushBackBodyRelocateFirst(m, val) ==
    IF m.size = Len(m.cur)
    THEN PushBackSwap(PlaceNew(UninitN(Alloc(m, GrowCap(m.size)), RelocKind, "data", 0,
                                       "new_data", 0, 0, m.size),
                               "ctor", "new_data", m.size, val))
    ELSE PushBackInPlace(PlaceNew(m, "ctor", "data", m.size, val))

\* Vector::PushBack(value)
PushBackBody(m, val) ==
    IF m.size = Len(m.cur)
    THEN PushBackRelocate(PlaceNew(Alloc(m, GrowCap(m.size)), "ctor", "new_data", m.size, val))
    ELSE PushBackInPlace(PlaceNew(m, "ctor", "data", m.size, val))

\* EmplaceBack, growth branch, after the relocation; returns
\* data_[size_ - 1].
EmplaceBackSwap(m) ==
    IF m.threw THEN Free(m)
    ELSE [Free(DestroyN(SwapBlocks(m), "new_data", 0, m.size)) EXCEPT
              !.size = @ + 1, !.ret = m.size]

\* EmplaceBack, growth branch, after the new element was built in new_data.
EmplaceBackRelocate(m) ==
    IF m.threw THEN Free(Destroy(m, "new_data", m.size))
    ELSE EmplaceBackSwap(UninitN(m, RelocKind, "data", 0, "new_data", 0, 0, m.size))

\* EmplaceBack, size_ < Capacity(), after the construction in slot size_.
EmplaceBackInPlace(m) ==
    IF m.threw THEN Destroy(m, "data", m.size)
    ELSE [m EXCEPT !.size = @ + 1, !.ret = m.size]

\* Vector::EmplaceBack(args...)
EmplaceBackBody(m, val) ==
    IF m.size = Len(m.cur)
    THEN EmplaceBackRelocate(PlaceNew(Alloc(m, GrowCap(m.size)), "ctor", "new_data",
                                      m.size, val))
    ELSE EmplaceBackInPlace(PlaceNew(m, "ctor", "data", m.size, val))

\* Vector::PopBack()
PopBackBody(m) == [Destroy(m, "data", m.size - 1) EXCEPT !.size = @ - 1]

\* Emplace, growth branch, after both relocations.
EmplaceSwap(m) ==
    IF m.threw THEN Free(m)
    ELSE Free(DestroyN(SwapBlocks(m), "new_data", 0, m.size))

\* Emplace, growth branch, after the prefix [0, pos) was relocated: the
\* suffix [pos, size_) goes to new_data + pos + 1.
EmplaceSuffix(m, pos) ==
    IF m.threw THEN Free(m)
    ELSE EmplaceSwap(UninitN(m, RelocKind, "data", pos, "new_data", pos + 1, 0, m.size - pos))

\* Emplace, growth branch, after the new element was built at new_data +
\* pos: the prefix [0, pos) is relocated.
EmplacePrefix(m, pos) ==
    IF m.threw THEN Free(Destroy(m, "new_data", pos))
    ELSE EmplaceSuffix(UninitN(m, RelocKind, "data", 0, "new_data", 0, 0, pos), pos)

\* The growth branch of Emplace.
EmplaceGrow(m, pos, val) ==
    EmplacePrefix(PlaceNew(Alloc(m, GrowCap(m.size)), "ctor", "new_data", pos, val), pos)

\* data_[pos_t] = std::forward<T>(temp)
EmplaceAssign(m, pos) ==
    IF m.threw THEN m ELSE Xfer(m, "masgn", "data", pos, "temp", 0)

\* std::move_backward(data_ + pos_t, data_ + (size_ - 1), data_ + size_)
EmplaceShift(m, pos) ==
    IF m.threw THEN m ELSE AssignBwd(m, "masgn", pos, m.size - 1, m.size)

\* Emplace, non-growth branch with elements, after T temp(args...): the
\* last element is move-constructed into slot size_, the range is shifted,
\* temp is assigned; temp is destroyed when its block is left.
EmplaceLast(m, pos) ==
    IF m.threw THEN m
    ELSE Destroy(EmplaceAssign(EmplaceShift(Xfer(m, "move", "data", m.size, "data",
                                                 m.size - 1), pos), pos),
                 "temp", 0)

\* The try block of the non-growth branch of Emplace.
EmplaceTry(m, pos, val) ==
    IF m.size # 0
    THEN EmplaceLast(PlaceNew(m, "ctor", "temp", 0, val), pos)
    ELSE PlaceNew(m, "ctor", "data", pos, val)

\* The catch block of the non-growth branch of Emplace, after
\* Destroy(data_ + pos_t): slot pos is rebuilt from slot size_ + pos_t + 1
\* and [pos_t + 2, size_) is assigned one slot to the left.
EmplaceRecover(m, pos) ==
    IF RelocKind = "move"
    THEN AssignFwd(Xfer(m, "move", "data", pos, "data", m.size + pos + 1),
                   "masgn", pos + 2, m.size, pos + 1)
    ELSE AssignFwd(Xfer(m, "copy", "data", pos, "data", m.size + pos + 1),
                   "casgn", pos + 2, m.size, pos + 1)

\* catch (...) { ...; throw; } of the non-growth branch of Emplace.
EmplaceCatch(m, pos) ==
    IF ~m.threw THEN m
    ELSE [EmplaceRecover(Destroy([m EXCEPT !.threw = FALSE], "data", pos), pos)
             EXCEPT !.threw = TRUE]

\* ++size_; return data_ + pos_t;
EmplaceExit(m, pos) ==
    IF m.threw THEN m ELSE [m EXCEPT !.size = @ + 1, !.ret = pos]

\* Vector::Emplace(pos, args...)
EmplaceBody(m, pos, val) ==
    EmplaceExit(IF m.size = Len(m.cur) THEN EmplaceGrow(m, pos, val)
                ELSE EmplaceCatch(EmplaceTry(m, pos, val), pos),
                pos)

\* Vector::Insert(pos, value)
InsertBody(m, pos, val) == EmplaceBody(m, pos, val)

\* Mutation of EraseLast: the vacated last slot is not destroyed.
EraseLastNoDestroy(m, pos) ==
    IF m.threw THEN m ELSE [m EXCEPT !.size = @ - 1, !.ret = pos]

\* Erase, after the shift: Destroy(data_ + size_ - 1); --size_.
EraseLast(m, pos) ==
    IF m.threw THEN m
    ELSE [Destroy(m, "data", m.size - 1) EXCEPT !.size = @ - 1, !.ret = pos]

\* Vector::Erase(pos)
EraseBody(m, pos) == EraseLast(AssignFwd(m, "masgn", pos + 1, m.size, pos), pos)

\* Vector::Vector(size): data_(size), size_(size), then the elements.
VectorBody(m, n) ==
    ValueConstructN([m EXCEPT !.cur = RawBlock(n), !.size = n,
                              !.hcur = Handle("a", RawBlock(n))],
                    "data", 0, 0, n)

\* Vector::~Vector() followed by ~RawMemory() of data_.
DestructEnd(m) ==
    [m EXCEPT !.leaked = @ + LiveCount(m.cur), !.cur = <<>>, !.size = 0, !.hcur = Null]

DestructBody(m) == DestructEnd(DestroyN(m, "data", 0, m.size))

\* Vector::Swap(other)
SwapBody(m) ==
    [m EXCEPT !.cur = m.rhs, !.rhs = m.cur, !.size = m.rsize, !.rsize = m.size,
              !.hcur = m.hrhs, !.hrhs = m.hcur]

\* Vector::operator=(Vector&& rhs)
MoveAssignBody(m) == SwapBody(m)

\* Vector::Vector(Vector&& other): the members start as RawMemory() and 0.
MoveConstructBody(m) == SwapBody([m EXCEPT !.cur = <<>>, !.size = 0, !.hcur = Null])

\* Vector::Vector(const Vector& other)
CopyConstructBody(m) ==
    UninitN([m EXCEPT !.cur = RawBlock(m.rsize), !.size = m.rsize,
                      !.hcur = Handle("n", RawBlock(m.rsize))],
            "copy", "rhs", 0, "data", 0, 0, m.rsize)

\* for (i = 0; i < n; ++i) data_[i] = rhs[i];   (from index i on)
AssignFromRhs(m, i, n) ==
    IF i >= n THEN m
    ELSE AssignFromRhsStep(Xfer(m, "casgn", "data", i, "rhs", i), i, n)

AssignFromRhsStep(m, i, n) ==
    IF m.threw THEN m ELSE AssignFromRhs(m, i + 1, n)

\* operator=, rhs.size_ > Capacity(): after Vector rhs_copy(rhs), whose
\* block is new_data here: Swap(rhs_copy), then ~Vector() of rhs_copy
\* destroys the oldsize elements this array had.
CopyAssignSwap(m, oldsize) ==
    IF m.threw THEN Free(m)
    ELSE Free(DestroyN([SwapBlocks(m) EXCEPT !.size = m.rsize], "new_data", 0, oldsize))

\* operator=, rhs.size_ < size_, after the assignments.
CopyAssignShrink(m) ==
    IF m.threw THEN m
    ELSE [DestroyN(m, "data", m.rsize, m.size - m.rsize) EXCEPT !.size = m.rsize]

\* operator=, size_ <= rhs.size_ <= Capacity(), after the assignments.
CopyAssignExtend(m) ==
    IF m.threw THEN m
    ELSE SetSize(UninitN(m, "copy", "rhs", m.size, "data", m.size, 0, m.rsize - m.size),
                 m.rsize)

\* Mutation of CopyAssignBody: the block of rhs is taken over, not copied.
CopyAssignBodyShallow(m) ==
    [m EXCEPT !.cur = m.rhs, !.size = m.rsize, !.hcur = m.hrhs]

\* Vector::operator=(const Vector& rhs), this != &rhs
CopyAssignBody(m) ==
    IF m.rsize > Len(m.cur)
    THEN CopyAssignSwap(UninitN(Alloc(m, m.rsize), "copy", "rhs", 0, "new_data", 0, 0,
                                m.rsize),
                        m.size)
    ELSE IF m.rsize < m.size
    THEN CopyAssignShrink(AssignFromRhs(m, 0, m.rsize))
    ELSE CopyAssignExtend(AssignFromRhs(m, 0, m.size))

\* RawMemory::Swap(other) on the blocks of the two arrays: buffer_ and
\* capacity_ are exchanged.
RawSwapBody(m) ==
    [m EXCEPT !.cur = m.rhs, !.rhs = m.cur, !.hcur = m.hrhs, !.hrhs = m.hcur]

\* RawMemory::operator=(RawMemory&& rhs)
RawMoveAssignBody(m) == RawSwapBody(m)

\* if (buffer_) Deallocate(buffer_): buffer_ then designates released
\* storage.
RawDeallocate(m) == IF m.hcur # Null THEN [m EXCEPT !.hcur = "freed"] ELSE m

\* RawMemory::RawMemory(RawMemory&& other): the members start as nullptr
\* and 0.
RawMoveConstructBody(m) ==
    RawSwapBody(RawDeallocate([m EXCEPT !.cur = <<>>, !.hcur = Null]))

\* Vector::operator[](index) used to write: data_[index] = val.
StoreBody(m, index, val) == [m EXCEPT !.cur[index + 1] = val]

\* Do data_ of the two arrays designate the same storage?
Shared(m) == m.hcur = m.hrhs /\ m.hcur # Null

\* The machine at the entry of a member function of the other array, after
\* the call that left m: the two arrays exchange their roles.
Rebind(m, fail, g) ==
    [Machine(m.rhs, m.rsize, m.cur, m.size, fail, g) EXCEPT
        !.hrhs = IF Shared(m) THEN Handle("a", m.rhs) ELSE @]

\* The machine at the entry of the next member function called on the same
\* array after the call that left m.
Again(m, fail, g) == Machine(m.cur, m.size, m.rhs, m.rsize, fail, g)

\* The block of the other array as its own data_ designates it: what was
\* written through a shared buffer_ is seen by both.
View(m) == IF Shared(m) THEN m.cur ELSE m.rhs

(* ------------------------------ actions -------------------------------- *)

\* Does the outcome of a call depend on an indeterminate read?
UsesGarbage(m) == m.junk

\* The fail ordinals of a call whose failure-free outcome is m0: 0 (no
\* element operation throws) and each f up to the number of fallible element
\* operations the call executes.
FailPoints(m0) == 0..m0.n

\* The values an indeterminate read may yield in a call whose outcome is m0
\* when such a read yields DefaultVal: one value if the call makes no such
\* read.
GarbageOf(m0) == IF UsesGarbage(m0) THEN Garbage ELSE {DefaultVal}

\* Did the call execute undefined behaviour on an element?
HasUB(m) == m.ub

\* The representation invariant of an array with block d and size n: the
\* slots [0, n) hold objects and the slots [n, capacity) hold none.
WellFormed(d, n) ==
    /\ n <= Len(d)
    /\ \A i \in 1..Len(d) : (d[i] # Raw) <=> (i <= n)

\* Executions are followed up to the first call with undefined behaviour
\* and up to the first state with an ill-formed array: a call is made only
\* on well-formed arrays by a program that is still defined.  (The states
\* such a call leaves, whatever they are, are reached and checked.)
Defined == ~ub /\ WellFormed(data, size) /\ WellFormed(odata, osize)

IsAppend(name) == name \in {"PushBack", "EmplaceBack"}

NoReserve == [k |-> -1, cap |-> -1, from |-> -1]

\* The history after call name(arg) with outcome m:
\*   pushes  the number of successful appends, all that happened since the
\*           array was constructed with capacity 0 (-1: something else did)
\*   res     the last Reserve(k) with size <= k since which only appends at
\*           size < k happened, the capacity it left and the size it found
History(m, name, arg) ==
    [pushes |-> IF IsAppend(name) /\ ~m.threw /\ hist.pushes >= 0
                THEN hist.pushes + 1 ELSE -1,
     res |-> IF name = "Reserve" /\ ~m.threw /\ size <= arg
             THEN [k |-> arg, cap |-> Len(m.cur), from |-> size]
             ELSE IF IsAppend(name) /\ hist.res.k >= 0 /\ size < hist.res.k
             THEN hist.res
             ELSE NoReserve]

\* Commit the machine at the exit of a member function of the array under
\* test.
Commit(m, name, arg) ==
    /\ Defined
    /\ data' = m.cur
    /\ size' = m.size
    /\ odata' = m.rhs
    /\ osize' = m.rsize
    /\ threw' = m.threw
    /\ ub' = HasUB(m)
    /\ hist' = History(m, name, arg)
    /\ UNCHANGED ty

\* Commit a constructor of the other array whose argument is the array under
\* test; d is the destructor run of the object it replaces.
CommitOther(m, d) ==
    /\ Defined
    /\ data' = m.rhs
    /\ size' = m.rsize
    /\ odata' = m.cur
    /\ osize' = m.size
    /\ threw' = m.threw
    /\ ub' = (HasUB(m) \/ HasUB(d))
    /\ hist' = [pushes |-> -1, res |-> NoReserve]
    /\ UNCHANGED ty

\* The array under test is constructed by Vector(n); Vector() is Vector(0).
\* The other array starts as Vector().
Init ==
    /\ ty \in Types
    /\ \E n \in 0..MaxCap :
        LET m == VectorBody(Machine(<<>>, 0, <<>>, 0, 0, DefaultVal), n)
        IN  /\ data = m.cur
            /\ size = m.size
            /\ hist = [pushes |-> IF n = 0 THEN 0 ELSE -1, res |-> NoReserve]
    /\ odata = <<>>
    /\ osize = 0
    /\ threw = FALSE
    /\ ub = FALSE

\* A growing append or insert is taken only while the new block fits.
Fits == size = Len(data) => GrowCap(size) <= MaxCap

Reserve ==
    \E n \in 0..MaxCap :
        \E f \in FailPoints(ReserveBody(Enter(0, DefaultVal), n)) :
            \E g \in GarbageOf(ReserveBody(Enter(f, DefaultVal), n)) :
                Commit(ReserveBody(Enter(f, g), n), "Reserve", n)

Resize ==
    \E n \in 0..MaxCap :
        \E f \in FailPoints(ResizeBody(Enter(0, DefaultVal), n)) :
            \E g \in GarbageOf(ResizeBody(Enter(f, DefaultVal), n)) :
                Commit(ResizeBody(Enter(f, g), n), "Resize", n)

PushBack ==
    /\ Fits
    /\ \E v \in Values :
        \E f \in FailPoints(PushBackBody(Enter(0, DefaultVal), v)) :
            \E g \in GarbageOf(PushBackBody(Enter(f, DefaultVal), v)) :
                Commit(PushBackBody(Enter(f, g), v), "PushBack", v)

EmplaceBack ==
    /\ Fits
    /\ \E v \in Values :
        \E f \in FailPoints(EmplaceBackBody(Enter(0, DefaultVal), v)) :
            \E g \in GarbageOf(EmplaceBackBody(Enter(f, DefaultVal), v)) :
                Commit(EmplaceBackBody(Enter(f, g), v), "EmplaceBack", v)

PopBack ==
    /\ size > 0
    /\ Commit(PopBackBody(Enter(0, DefaultVal)), "PopBack", -1)

\* Emplace(pos, args...), and Insert(pos, value), which only forwards to it.
Emplace ==
    /\ Fits
    /\ \E pos \in 0..size, v \in Values :
        \E f \in FailPoints(EmplaceBody(Enter(0, DefaultVal), pos, v)) :
            \E g \in GarbageOf(EmplaceBody(Enter(f, DefaultVal), pos, v)) :
                Commit(EmplaceBody(Enter(f, g), pos, v), "Emplace", pos)

Erase ==
    \E pos \in 0..(size - 1) :
        \E f \in FailPoints(EraseBody(Enter(0, DefaultVal), pos)) :
            \E g \in GarbageOf(EraseBody(Enter(f, DefaultVal), pos)) :
                Commit(EraseBody(Enter(f, g), pos), "Erase", pos)

CopyAssign ==
    /\ ty.copyable
    /\ \E f \in FailPoints(CopyAssignBody(Enter(0, DefaultVal))) :
        \E g \in GarbageOf(CopyAssignBody(Enter(f, DefaultVal))) :
            Commit(CopyAssignBody(Enter(f, g)), "CopyAssign", -1)

MoveAssign == Commit(MoveAssignBody(Enter(0, DefaultVal)), "MoveAssign", -1)

Swap == Commit(SwapBody(Enter(0, DefaultVal)), "Swap", -1)

\* The other array is destroyed and a new one is move-constructed from the
\* array under test.
MoveConstruct ==
    LET d == DestructBody(Machine(odata, osize, <<>>, 0, 0, DefaultVal))
        m == MoveConstructBody(Machine(<<>>, 0, data, size, 0, DefaultVal))
    IN  CommitOther(m, d)

\* The other array is destroyed and a new one is copy-constructed from the
\* array under test (the construction succeeds).
CopyConstruct ==
    /\ ty.copyable
    /\ \E g \in Garbage :
        LET d == DestructBody(Machine(odata, osize, <<>>, 0, 0, g))
            m == CopyConstructBody(Machine(<<>>, 0, data, size, 0, g))
        IN  CommitOther(m, d)

Next ==
    \/ Reserve
    \/ Resize
    \/ PushBack
    \/ EmplaceBack
    \/ PopBack
    \/ Emplace
    \/ Erase

Spec == Init /\ [][Next]_vars

\* The two-array specification keeps both blocks within MaxCapTwo slots.
Small == Len(data) <= MaxCapTwo /\ Len(odata) <= MaxCapTwo

InitTwo == Init /\ Small

NextTwo ==
    \/ PushBack /\ Small'
    \/ PopBack
    \/ Reserve /\ Small'
    \/ CopyAssign
    \/ MoveAssign
    \/ Swap
    \/ MoveConstruct
    \/ CopyConstruct

SpecTwo == InitTwo /\ [][NextTwo]_vars

(* ------------------------- properties of calls ------------------------- *)

\* P holds of every outcome of the call F for fail ordinal f, m0 being its
\* outcome when no read is indeterminate.
AllGarbage(F(_, _), P(_), f, m0) ==
    IF UsesGarbage(m0) THEN \A g \in Garbage : P(F(f, g)) ELSE P(m0)

\* P holds of every outcome of the call F in the current state.
AllRuns(F(_, _), P(_)) ==
    \A f \in FailPoints(F(0, DefaultVal)) : AllGarbage(F, P, f, F(f, DefaultVal))

\* P holds of some outcome of the call F in the current state.
SomeRun(F(_, _), P(_)) ==
    \E f \in FailPoints(F(0, DefaultVal)) : \E g \in Garbage : P(F(f, g))

\* The kind of the element operation that threw.
FailedKind(m) == m.failed

\* A relocation: a construction in new_data from an element of data_.
IsRelocation(e) == e.b = "new_data" /\ e.src # -1

\* The relocations of a call.
Relocations(m) == {i \in 1..Len(m.log) : IsRelocation(m.log[i])}

\* Does the call allocate a block?
Allocates(m) == \E i \in 1..Len(m.log) : m.log[i].k = "alloc"

RECURSIVE Pow2From(_, _)
\* The smallest power of two >= k that is >= p, p a power of two.
Pow2From(p, k) == IF p >= k THEN p ELSE Pow2From(2 * p, k)

\* C1: after any sequence of completed public operations the array is well
\* formed: size <= capacity, the slots [0, size) hold live elements and the
\* slots [size, capacity) hold none.
C1_WellFormedAfterCalls ==
    ~threw => WellFormed(data, size) /\ WellFormed(odata, osize)

\* The outcome of a successful Resize(n), n > size, as C2 states it.
ResizedTo(m, n) ==
    /\ m.size = n
    /\ Len(m.cur) >= n
    /\ \A i \in 1..Len(m.cur) :
        m.cur[i] = (IF i <= size THEN data[i] ELSE IF i <= n THEN DefaultVal ELSE Raw)

\* C2: Resize(n) with n > size, whatever the capacity: afterwards size = n,
\* the elements [0, old size) keep their values and exactly the slots
\* [old size, n) are newly default-constructed.
C2_ResizeGrows ==
    Defined =>
        \A n \in (size + 1)..MaxCap :
            AllRuns(LAMBDA f, g : ResizeBody(Enter(f, g), n),
                    LAMBDA m : ~m.threw => ResizedTo(m, n))

\* A call that failed in the construction of the new element or in a copy
\* of an existing element left the array as it was.
Untouched(m) ==
    (m.threw /\ FailedKind(m) \in {"ctor", "copy"}) => (m.cur = data /\ m.size = size)

\* C3: strong guarantee on growth: when PushBack, EmplaceBack or Emplace is
\* called with size = capacity and the construction of the new element, or a
\* copy of an existing element, fails, the size, the capacity and the values
\* of all elements are those before the call.
C3_StrongGuaranteeOnGrowth ==
    (Defined /\ size = Len(data)) =>
        \A v \in Values :
            /\ AllRuns(LAMBDA f, g : PushBackBody(Enter(f, g), v), Untouched)
            /\ AllRuns(LAMBDA f, g : EmplaceBackBody(Enter(f, g), v), Untouched)
            /\ \A pos \in 0..size :
                AllRuns(LAMBDA f, g : EmplaceBody(Enter(f, g), pos, v), Untouched)

\* An array filled by two appends, of a type that is relocated by copy: a
\* growing Emplace in the middle fails in the copy of the suffix (its third
\* fallible operation) and leaves the array as it was.
C3_Witness ==
    /\ hist.pushes = 2 /\ ~threw
    /\ Defined /\ size = Len(data) /\ size = 2 /\ ~ty.nothrowMove /\ ty.copyable
    /\ SomeRun(LAMBDA f, g : EmplaceBody(Enter(f, g), 1, 1),
               LAMBDA m : /\ m.threw /\ FailedKind(m) = "copy" /\ m.n = 3
                          /\ m.cur = data /\ m.size = size)

\* The destination holds the source's former elements in order and the
\* source is empty.
MovedInto(m, srcData, srcSize) ==
    /\ m.size = srcSize
    /\ Prefix(m.cur, m.size) = Prefix(srcData, srcSize)
    /\ m.rsize = 0

\* C4: move-construction and move-assignment, whatever the destination held:
\* afterwards the destination holds the source's former elements in their
\* order and the source is empty.
C4_MoveLeavesSourceEmpty ==
    Defined =>
        /\ MovedInto(MoveAssignBody(Enter(0, DefaultVal)), odata, osize)
        /\ MovedInto(MoveConstructBody(Machine(<<>>, 0, data, size, 0, DefaultVal)),
                     data, size)

\* The outcome of a successful Insert/Emplace at pos of value v, as C5
\* states it.
InsertedAt(m, pos, v) ==
    /\ m.size = size + 1
    /\ Len(m.cur) >= size + 1
    /\ m.cur[pos + 1] = v
    /\ \A i \in 1..pos : m.cur[i] = data[i]
    /\ \A i \in (pos + 1)..size : m.cur[i + 1] = data[i]
    /\ m.ret = pos

\* C5: Insert/Emplace at every pos in [0, size], growing or not: afterwards
\* size is one more, slot pos holds the new value, the elements before pos
\* and the elements from pos on (one slot to the right) keep their values,
\* and the iterator returned designates slot pos.
C5_InsertShiftsSuffix ==
    Defined =>
        \A pos \in 0..size, v \in Values :
            /\ AllRuns(LAMBDA f, g : EmplaceBody(Enter(f, g), pos, v),
                       LAMBDA m : ~m.threw => InsertedAt(m, pos, v))
            /\ AllRuns(LAMBDA f, g : InsertBody(Enter(f, g), pos, v),
                       LAMBDA m : ~m.threw => InsertedAt(m, pos, v))

\* The events of a call from the one that threw on.
RecoveryEvents(m) == {i \in 1..Len(m.log) : \E h \in 1..i : ~m.log[h].ok}

\* The recovery of a failed non-growth Emplace, as C6 states it: size is
\* restored, and no slot of data_ outside [0, size) is read or written.
RecoversInRange(m) ==
    m.threw =>
        /\ m.size = size
        /\ \A i \in RecoveryEvents(m) :
            (m.log[i].b = "data" /\ m.log[i].ok) =>
                /\ m.log[i].src < size
                /\ m.log[i].k # "dtor" => m.log[i].i < size

\* C6: when a construction or assignment fails inside Emplace/Insert with
\* size < capacity, the recovery leaves size as it was, destroys only the
\* partially constructed slot, and reads or writes no slot outside the live
\* range [0, size).
C6_RecoveryStaysInRange ==
    (Defined /\ size < Len(data)) =>
        \A pos \in 0..size, v \in Values :
            AllRuns(LAMBDA f, g : EmplaceBody(Enter(f, g), pos, v), RecoversInRange)

\* A failed call released no block with an object still alive in it.
NoLeak(m) == m.threw => m.leaked = 0

\* C7: when an element operation fails inside Reserve, Resize, PushBack,
\* EmplaceBack or a growing Emplace, every object the call had constructed
\* in the new block is destructed before the block is released.
C7_NoLeakOnFailure ==
    Defined =>
        /\ \A n \in 0..MaxCap :
            /\ AllRuns(LAMBDA f, g : ReserveBody(Enter(f, g), n), NoLeak)
            /\ AllRuns(LAMBDA f, g : ResizeBody(Enter(f, g), n), NoLeak)
        /\ size = Len(data) =>
            \A v \in Values :
                /\ AllRuns(LAMBDA f, g : PushBackBody(Enter(f, g), v), NoLeak)
                /\ AllRuns(LAMBDA f, g : EmplaceBackBody(Enter(f, g), v), NoLeak)
                /\ \A pos \in 0..size :
                    AllRuns(LAMBDA f, g : EmplaceBody(Enter(f, g), pos, v), NoLeak)

\* Every relocation of the call is a move if T's move constructor cannot
\* throw or T has no copy constructor, and a copy otherwise.
RelocatesByPolicy(m) ==
    \A i \in Relocations(m) :
        m.log[i].k = (IF ty.nothrowMove \/ ~ty.copyable THEN "move" ELSE "copy")

\* C8: in each of the four growth paths (Reserve, PushBack, EmplaceBack,
\* Emplace) the existing elements are relocated by move-construction iff T's
\* move constructor cannot fail or T has no copy constructor, and by
\* copy-construction otherwise.
C8_RelocationPolicy ==
    Defined =>
        /\ \A n \in (Len(data) + 1)..MaxCap :
            AllRuns(LAMBDA f, g : ReserveBody(Enter(f, g), n), RelocatesByPolicy)
        /\ size = Len(data) =>
            \A v \in Values :
                /\ AllRuns(LAMBDA f, g : PushBackBody(Enter(f, g), v), RelocatesByPolicy)
                /\ AllRuns(LAMBDA f, g : EmplaceBackBody(Enter(f, g), v), RelocatesByPolicy)
                /\ \A pos \in 0..size :
                    AllRuns(LAMBDA f, g : EmplaceBody(Enter(f, g), pos, v),
                            RelocatesByPolicy)

\* An array grown to two elements by appends, of a type with a throwing move
\* and a copy constructor: a growing Emplace relocates both, by copy.
C8_Witness ==
    /\ hist.pushes = 2 /\ ~threw
    /\ Defined /\ size = Len(data) /\ size = 2 /\ ~ty.nothrowMove /\ ty.copyable
    /\ LET m == EmplaceBody(Enter(0, DefaultVal), 1, 1)
       IN  /\ ~m.threw
           /\ Cardinality(Relocations(m)) = 2
           /\ \A i \in Relocations(m) : m.log[i].k = "copy"

\* No outcome of a call has a smaller capacity than the array had.
KeepsCapacity(m) == Len(m.cur) >= Len(data)

\* A successful call made with size = capacity left capacity 1 if it was 0
\* and twice the capacity otherwise.
Doubled(m) ==
    /\ KeepsCapacity(m)
    /\ (size = Len(data) /\ ~m.threw) =>
        Len(m.cur) = (IF Len(data) = 0 THEN 1 ELSE 2 * Len(data))

\* C9: growth policy.  After k successful appends to an array constructed
\* empty, size = k and the capacity is the smallest power of two >= k; a
\* growing append or insert sets the capacity to 1 if it was 0 and to twice
\* the capacity otherwise; and no operation on one array (Reserve, Resize,
\* PushBack, EmplaceBack, PopBack, Emplace/Insert, Erase) decreases the
\* capacity.
C9_GrowthPolicy ==
    /\ hist.pushes >= 0 =>
        /\ size = hist.pushes
        /\ Len(data) = (IF size = 0 THEN 0 ELSE Pow2From(1, size))
    /\ Defined =>
        /\ \A v \in Values :
            /\ AllRuns(LAMBDA f, g : PushBackBody(Enter(f, g), v), Doubled)
            /\ AllRuns(LAMBDA f, g : EmplaceBackBody(Enter(f, g), v), Doubled)
            /\ \A pos \in 0..size :
                AllRuns(LAMBDA f, g : EmplaceBody(Enter(f, g), pos, v), Doubled)
        /\ \A n \in 0..MaxCap :
            /\ AllRuns(LAMBDA f, g : ReserveBody(Enter(f, g), n), KeepsCapacity)
            /\ AllRuns(LAMBDA f, g : ResizeBody(Enter(f, g), n), KeepsCapacity)
        /\ \A pos \in 0..(size - 1) :
            AllRuns(LAMBDA f, g : EraseBody(Enter(f, g), pos), KeepsCapacity)
        /\ size > 0 => KeepsCapacity(PopBackBody(Enter(0, DefaultVal)))

\* Three appends to an array constructed empty: capacity 4 after 1 and 2.
C9_Witness == hist.pushes = 3 /\ size = 3 /\ Len(data) = 4 /\ ~threw

\* The append allocates nothing, relocates nothing and keeps the capacity.
InPlace(m) == ~Allocates(m) /\ Relocations(m) = {} /\ Len(m.cur) = Len(data)

\* C10: after Reserve(k) on an array with size <= k, every append made
\* while size < k allocates no block and relocates no element: the capacity
\* is, in every state until size = k, the one Reserve left.
C10_ReserveThenAppend ==
    hist.res.k >= 0 =>
        /\ Len(data) = hist.res.cap
        /\ (Defined /\ size < hist.res.k) =>
            \A v \in Values :
                /\ AllRuns(LAMBDA f, g : PushBackBody(Enter(f, g), v), InPlace)
                /\ AllRuns(LAMBDA f, g : EmplaceBackBody(Enter(f, g), v), InPlace)

\* Reserve(3) on an empty array, then three appends: size 3, capacity 3.
C10_Witness ==
    /\ hist.res.k = 3 /\ hist.res.cap = 3 /\ hist.res.from = 0
    /\ size = 3 /\ Len(data) = 3 /\ ~threw

\* The events of kind k on block b that completed.
Done(m, k, b) == {i \in 1..Len(m.log) : m.log[i].k = k /\ m.log[i].b = b /\ m.log[i].ok}

\* The outcome of Reserve(n) as C11 states it.
Reserved(m, n) ==
    /\ n <= Len(data) => (m.cur = data /\ m.size = size /\ m.log = <<>>)
    /\ (n > Len(data) /\ ~m.threw) =>
        /\ Len(m.cur) = n
        /\ m.size = size
        /\ \A i \in 1..n : m.cur[i] = (IF i <= size THEN data[i] ELSE Raw)
    /\ (n > Len(data) /\ m.threw /\ FailedKind(m) = "copy") =>
        /\ m.cur = data /\ m.size = size
        /\ Cardinality(Done(m, "dtor", "new_data")) = Cardinality(Done(m, "copy", "new_data"))
        /\ m.leaked = 0
        /\ m.nw = <<>>
        /\ ~HasUB(m)

\* C11: Reserve(n) changes nothing when capacity >= n; when capacity < n and
\* the call succeeds, capacity = n and the size and the element values are
\* unchanged; when a relocating copy fails, the elements already copied are
\* destructed, the new block is released and the array is as before the call.
C11_ReserveContract ==
    Defined =>
        \A n \in 0..MaxCap :
            AllRuns(LAMBDA f, g : ReserveBody(Enter(f, g), n), LAMBDA m : Reserved(m, n))

\* Reserve(3) on two elements of a type relocated by copy succeeded
\* (capacity 3, both values kept), and a Reserve(4) that fails in the copy
\* of the second element destructs the one copy made and leaves the array
\* as it is.
C11_Witness ==
    /\ hist.res.k = 3 /\ hist.res.from = 2 /\ size = 2 /\ data = <<0, 0, Raw>> /\ ~threw
    /\ ~ty.nothrowMove /\ ty.copyable
    /\ LET m == ReserveBody(Enter(2, DefaultVal), 4)
       IN  /\ m.threw /\ FailedKind(m) = "copy"
           /\ Cardinality(Done(m, "dtor", "new_data")) = 1
           /\ m.cur = data

\* The other array's elements after a call on this one are those in blk.
KeepsOther(m, blk, n) == ~m.threw => (m.rsize = n /\ Prefix(View(m), n) = Prefix(blk, n))

\* After the assignment that left m, no mutation of b (an element write, an
\* append, an erase) changes the size or the elements of a.
Independent(m) ==
    /\ \A i \in 0..(m.rsize - 1), v \in Values \cup {DefaultVal} :
        KeepsOther(StoreBody(Rebind(m, 0, DefaultVal), i, v), m.cur, m.size)
    /\ \A v \in Values :
        AllRuns(LAMBDA f, g : PushBackBody(Rebind(m, f, g), v),
                LAMBDA x : KeepsOther(x, m.cur, m.size))
    /\ \A i \in 0..(m.rsize - 1) :
        AllRuns(LAMBDA f, g : EraseBody(Rebind(m, f, g), i),
                LAMBDA x : KeepsOther(x, m.cur, m.size))

\* The outcome of a successful a = b as C12 states it.
Copied(m) ==
    ~m.threw =>
        /\ m.size = osize
        /\ Prefix(m.cur, m.size) = Prefix(odata, osize)
        /\ WellFormed(m.cur, m.size)
        /\ m.rhs = odata /\ m.rsize = osize
        /\ m.hcur # Handle("a", data) => osize > Len(data)
        /\ Independent(m)

\* C12: copy-assignment a = b between distinct arrays, whatever a.size,
\* a.capacity and b.size: afterwards a's size and elements equal b's, b is
\* unchanged, no later mutation of b changes a, and a's block is replaced
\* only when b.size > a.capacity.
C12_CopyAssignIsDeep ==
    (Defined /\ ty.copyable) =>
        AllRuns(LAMBDA f, g : CopyAssignBody(Enter(f, g)), Copied)

\* b holds two elements and a has capacity 1: a = b replaces a's block, and
\* a write to b[0] afterwards is not seen by a.
C12_Witness ==
    /\ Defined /\ ty.copyable /\ osize = 2 /\ Len(data) = 1 /\ size = 1 /\ ~threw
    /\ LET m == CopyAssignBody(Enter(0, DefaultVal))
       IN  /\ ~m.threw /\ m.size = 2 /\ m.hcur = "n"
           /\ Prefix(m.cur, 2) = Prefix(odata, 2)
           /\ StoreBody(Rebind(m, 0, DefaultVal), 0, 1 - odata[1]).cur # m.cur
           /\ View(StoreBody(Rebind(m, 0, DefaultVal), 0, 1 - odata[1])) = m.cur

\* The array left by m has the size and the elements it had before the calls.
Restored(m) == ~m.threw => (m.size = size /\ Prefix(m.cur, m.size) = Prefix(data, size))

\* C13: round trip: in every array state and for every pos in [0, size], a
\* successful Insert(pos, v) followed by a successful Erase(pos) leaves the
\* size and the element sequence the array had before the Insert.
C13_InsertEraseRoundTrip ==
    Defined =>
        \A pos \in 0..size, v \in Values :
            AllRuns(LAMBDA f, g : InsertBody(Enter(f, g), pos, v),
                    LAMBDA m : ~m.threw =>
                        AllRuns(LAMBDA f, g : EraseBody(Again(m, f, g), pos), Restored))

\* The outcome of a successful Erase(pos) as C14 states it.
Erased(m, pos) ==
    ~m.threw =>
        /\ m.size = size - 1
        /\ \A i \in 1..pos : m.cur[i] = data[i]
        /\ \A i \in (pos + 1)..(size - 1) : m.cur[i] = data[i + 1]
        /\ m.cur[size] = Raw
        /\ Done(m, "dtor", "data") = {Len(m.log)}
        /\ m.log[Len(m.log)].i = size - 1 /\ ~m.log[Len(m.log)].bad
        /\ Len(m.cur) = Len(data) /\ m.hcur = Handle("a", data)
        /\ m.ret = pos
        /\ size = 1 => m.size = 0

\* C14: Erase(pos), pos in [0, size): afterwards size is one less, the slots
\* [0, pos) are unchanged, slot i in [pos, size) holds the old element
\* i + 1, the vacated last slot is destructed, the capacity is unchanged and
\* the iterator returned designates slot pos; erasing the only element
\* leaves size 0.
C14_EraseShiftsLeft ==
    Defined =>
        \A pos \in 0..(size - 1) :
            AllRuns(LAMBDA f, g : EraseBody(Enter(f, g), pos), LAMBDA m : Erased(m, pos))

\* The array <<0, 1>> (one element constructed, one appended): Erase(0)
\* leaves <<1>> in a block of capacity 2 and returns slot 0.
C14_Witness ==
    /\ data = <<0, 1>> /\ size = 2 /\ ~threw
    /\ LET m == EraseBody(Enter(0, DefaultVal), 0)
       IN  ~m.threw /\ m.cur = <<1, Raw>> /\ m.size = 1 /\ m.ret = 0

\* A block's handle is null iff its capacity is 0, for the three blocks of m.
NullIffEmpty(m) ==
    /\ (m.hcur = Null) <=> (Len(m.cur) = 0)
    /\ (m.hrhs = Null) <=> (Len(m.rhs) = 0)
    /\ (m.hnw = Null) <=> (Len(m.nw) = 0)

\* The destination holds the block src with handle h and the source is the
\* empty block.
RawMoved(m, src, h) ==
    /\ m.cur = src /\ m.hcur = h
    /\ m.rhs = <<>> /\ m.hrhs = Null

\* C15: move-construction and move-assignment of a block, whatever the
\* destination held: afterwards the destination has the source's former
\* handle and capacity and the source is the empty block (null handle,
\* capacity 0); and a block's handle is null iff its capacity is 0.
C15_RawMoveEmptiesSource ==
    Defined =>
        /\ RawMoved(RawMoveConstructBody(Enter(0, DefaultVal)), odata, Handle("b", odata))
        /\ RawMoved(RawMoveAssignBody(Enter(0, DefaultVal)), odata, Handle("b", odata))
        /\ NullIffEmpty(RawMoveConstructBody(Enter(0, DefaultVal)))
        /\ NullIffEmpty(RawMoveAssignBody(Enter(0, DefaultVal)))

\* The slots of a block that hold an object.
Live(s) == {i \in 1..Len(s) : s[i] # Raw}

\* The order of the events of a growing append or insert as C16 states it.
Ordered(m) ==
    /\ \A i \in Relocations(m) : \E c \in Done(m, "ctor", "new_data") : c < i
    /\ \A s \in Done(m, "swap", "data") :
        /\ \A i \in Relocations(m) : i < s /\ m.log[i].ok
        /\ Cardinality(Relocations(m)) = size
        /\ \A i \in Done(m, "dtor", "new_data") : i > s /\ ~m.log[i].bad
        /\ Cardinality(Done(m, "dtor", "new_data")) = size
    /\ \A i \in 1..Len(m.log) : m.log[i].b = "data" => m.log[i].k = "swap"
    /\ (Done(m, "swap", "data") = {}) <=> m.threw
    /\ m.threw =>
        /\ m.hcur = Handle("a", data)
        /\ m.size = size
        /\ Live(m.cur) = Live(data)
        /\ RelocKind = "copy" => m.cur = data

\* C16: in a growing PushBack, EmplaceBack and Emplace the new element is
\* constructed in the new block before any element is relocated, the
\* array's block is replaced only after every element was relocated, and
\* the old block's elements are destructed only after the replacement; until
\* the replacement the array has the block, the size and the live slots it
\* had before the call (and, relocated by copy, the values).
C16_GrowthOrder ==
    (Defined /\ size = Len(data)) =>
        \A v \in Values :
            /\ AllRuns(LAMBDA f, g : PushBackBody(Enter(f, g), v), Ordered)
            /\ AllRuns(LAMBDA f, g : EmplaceBackBody(Enter(f, g), v), Ordered)
            /\ \A pos \in 0..size :
                AllRuns(LAMBDA f, g : EmplaceBody(Enter(f, g), pos, v), Ordered)

\* An array filled by two appends: a third one allocates, constructs the
\* new element, relocates two elements, swaps and destroys two, in this
\* order.
C16_Witness ==
    /\ hist.pushes = 2 /\ size = 2 /\ Len(data) = 2 /\ ~threw /\ Defined
    /\ LET m == PushBackBody(Enter(0, DefaultVal), 1)
       IN  /\ Done(m, "ctor", "new_data") = {2}
           /\ Relocations(m) = {3, 4}
           /\ Done(m, "swap", "data") = {5}
           /\ Done(m, "dtor", "new_data") = {6, 7}

\* Every destructor call of the run was on a slot that held a live object.
DestroysLive(m) == \A i \in 1..Len(m.log) : m.log[i].k = "dtor" => ~m.log[i].bad

\* C17: in every operation and every recovery path (PushBack, EmplaceBack,
\* Emplace, Erase, PopBack with size > 0, Resize, copy-assignment,
\* destruction) a destructor is invoked only on a slot that holds a live
\* object: never on a slot whose construction failed, never twice.
C17_DestroyOnlyLive ==
    Defined =>
        /\ \A v \in Values :
            /\ AllRuns(LAMBDA f, g : PushBackBody(Enter(f, g), v), DestroysLive)
            /\ AllRuns(LAMBDA f, g : EmplaceBackBody(Enter(f, g), v), DestroysLive)
            /\ \A pos \in 0..size :
                AllRuns(LAMBDA f, g : EmplaceBody(Enter(f, g), pos, v), DestroysLive)
        /\ \A pos \in 0..(size - 1) :
            AllRuns(LAMBDA f, g : EraseBody(Enter(f, g), pos), DestroysLive)
        /\ size > 0 => DestroysLive(PopBackBody(Enter(0, DefaultVal)))
        /\ \A n \in 0..MaxCap :
            AllRuns(LAMBDA f, g : ResizeBody(Enter(f, g), n), DestroysLive)
        /\ ty.copyable => AllRuns(LAMBDA f, g : CopyAssignBody(Enter(f, g)), DestroysLive)
        /\ DestroysLive(DestructBody(Enter(0, DefaultVal)))

\* The new element, in slot at, has the value element i had, and element i,
\* now in slot to, still has it.
AliasKept(m, i, at, to) ==
    ~m.threw => (m.cur[at + 1] = data[i + 1] /\ m.cur[to + 1] = data[i + 1])

\* C18: aliasing: when the argument of PushBack, EmplaceBack or
\* Insert/Emplace is a reference to element i of the same array, the new
\* element has the value element i had before the call and element i keeps
\* that value, growing or not.
C18_AliasedArgument ==
    (Defined /\ ty.copyable) =>
        \A i \in 0..(size - 1) :
            /\ AllRuns(LAMBDA f, g : PushBackBody(Enter(f, g), Ref(i)),
                       LAMBDA m : AliasKept(m, i, size, i))
            /\ AllRuns(LAMBDA f, g : EmplaceBackBody(Enter(f, g), Ref(i)),
                       LAMBDA m : AliasKept(m, i, size, i))
            /\ \A pos \in 0..size :
                /\ AllRuns(LAMBDA f, g : EmplaceBody(Enter(f, g), pos, Ref(i)),
                           LAMBDA m : AliasKept(m, i, pos, IF i >= pos THEN i + 1 ELSE i))
                /\ AllRuns(LAMBDA f, g : InsertBody(Enter(f, g), pos, Ref(i)),
                           LAMBDA m : AliasKept(m, i, pos, IF i >= pos THEN i + 1 ELSE i))

====
